---- MODULE Spec2Model ----
(***************************************************************************)
(* Model of the multi-stock monitor of src/v9.py: the analysis function    *)
(* analyze_stock, its helpers calculate_rsi / get_vix_info / fetch_data,   *)
(* and the polling loop that calls them once per tracked symbol and        *)
(* refresh cycle.  src/v4.py is the same script without the anomaly        *)
(* detection (v9 lines 56-71, 77-94 and 105-107); line numbers below are   *)
(* those of v9.py.                                                         *)
(*                                                                         *)
(* Numbers.  Prices and volumes are integers.  Every derived float is an   *)
(* exact rational [kind |-> "num", n, d] in lowest terms (d > 0), or one   *)
(* of the IEEE specials NaN / Inf that numpy produces on a division by     *)
(* zero; binary rounding is not modelled.  The VIX level and its change    *)
(* v_chg are counted in tenths of a point (v_chg = 2 is a change of 0.2).  *)
(*                                                                         *)
(* Objects.  A DataFrame is an object: `frames` holds the frame objects of *)
(* the current cycle and the script's variables refer to them by entry     *)
(* number, so that a column written by analyze_stock is seen through every *)
(* reference.                                                              *)
(*                                                                         *)
(* Text.  The messages of the script are written in ASCII: "Anomaly: ..."  *)
(* for line 106, "Golden cross", "Death cross", "Near resistance" and      *)
(* "Trend stable" for lines 109, 111, 113 and 101.                         *)
(*                                                                         *)
(* Three specifications: Spec is the script running its loop; SpecBars     *)
(* follows the first tracked entry from cycle to cycle, one new bar at a   *)
(* time; SpecApi is a single direct call of analyze_stock with arbitrary   *)
(* periods.                                                                *)
(***************************************************************************)
EXTENDS Integers, Sequences, FiniteSets, TLC

VARIABLES
    feed,              \* the provider's bars per ticker (a flat run, then a tail)
    ticks,             \* number of bars published since the start
    ema_f_v, ema_s_v,  \* the two EMA sliders
    pc,                \* where the script is
    idx,               \* position of the summary loop in the tracked list
    v_chg,             \* this cycle's VIX change
    frames,            \* the frame objects of this cycle, by entry
    df_raw,            \* the object fetch_data returned last (0 is None)
    fetched,           \* kind of that object when it was returned
    ret,               \* what the last call of analyze_stock left behind
    stock_data_store,  \* symbol -> <<frame object, info>>
    cols,              \* the cards of the summary row
    charts,            \* the symbols charted in this cycle
    calls              \* calls of analyze_stock per entry in this cycle

vars == <<feed, ticks, ema_f_v, ema_s_v, pc, idx, v_chg, frames, df_raw,
          fetched, ret, stock_data_store, cols, charts, calls>>

-----------------------------------------------------------------------------
(* Bounds of the model *)

\* Number of new bars the data provider publishes during a run.
MaxTicks == 2

-----------------------------------------------------------------------------
(* Exact arithmetic on the floats of the program *)

Abs(x) == IF x < 0 THEN -x ELSE x

Max(a, b) == IF a >= b THEN a ELSE b

RECURSIVE GCD(_, _)
GCD(a, b) == IF b = 0 THEN a ELSE GCD(b, a % b)

\* The float n/d (d > 0), in lowest terms.
Num(n, d) == LET g == GCD(Abs(n), d) IN [kind |-> "num", n |-> n \div g, d |-> d \div g]

NaN == [kind |-> "nan", n |-> 0, d |-> 0]
Inf == [kind |-> "inf", n |-> 1, d |-> 0]

IsNum(x) == x.kind = "num"

\* IEEE comparisons: any comparison with NaN is false.
FGt(x, y) == IsNum(x) /\ IsNum(y) /\ x.n * y.d > y.n * x.d
FGe(x, y) == IsNum(x) /\ IsNum(y) /\ x.n * y.d >= y.n * x.d
FLt(x, y) == FGt(y, x)
FLe(x, y) == FGe(y, x)
FAbs(x) == [x EXCEPT !.n = Abs(x.n)]

\* numpy's float64 division: x / 0 is inf (nan for 0 / 0), no exception.
NumpyDiv(n, d) == IF d # 0 THEN (IF d > 0 THEN Num(n, d) ELSE Num(-n, -d))
                  ELSE IF n = 0 THEN NaN ELSE Inf

-----------------------------------------------------------------------------
(* Data frames *)

OHLCV == {"Open", "High", "Low", "Close", "Volume"}

Bar(o, h, l, c, v) == [Open |-> o, High |-> h, Low |-> l, Close |-> c, Volume |-> v]

\* Python's None.
None == [kind |-> "None"]

NoCols == [c \in {} |-> <<>>]

\* A pandas DataFrame: the OHLCV rows plus the computed columns added to it.
DataFrame(rows) == [kind |-> "DataFrame", rows |-> rows, extra |-> NoCols]

Columns(df) == OHLCV \cup DOMAIN df.extra

Col(df, name) == [i \in 1..Len(df.rows) |-> df.rows[i][name]]

Row(df, i) == [c \in Columns(df) |->
                 IF c \in OHLCV THEN df.rows[i][c] ELSE df.extra[c][i]]

-----------------------------------------------------------------------------
(* Program constants *)

RsiPeriod == 14          \* calculate_rsi(series, period=14)
VolMaWindow == 10        \* df['Volume'].rolling(window=10)
MinBars == 25            \* len(df) < 25
VixDefault == 200        \* return 20.0, 0.0   (tenths)
VixThreshold == 2        \* v_chg > 0.2        (tenths)

-----------------------------------------------------------------------------
(* Indicators *)

\* One step of Series.ewm(span, adjust=False).mean():
\* y[t] = (1 - a) * y[t-1] + a * x[t] with a = 2 / (span + 1).
EmaStep(y, x, span) == Num((span - 1) * y.n + 2 * x * y.d, (span + 1) * y.d)

\* The first i values of series.ewm(span=span, adjust=False).mean(),
\* seeded with the first value of the series.
RECURSIVE EwmMean(_, _, _)
EwmMean(series, span, i) ==
    IF i = 0 THEN <<>>
    ELSE IF i = 1 THEN <<Num(series[1], 1)>>
    ELSE LET p == EwmMean(series, span, i - 1)
         IN  Append(p, EmaStep(p[i - 1], series[i], span))

\* delta.where(delta > 0, 0) and -delta.where(delta < 0, 0) at row i; the
\* first difference is NaN, which both tests replace by 0.
Gain(series, i) == IF i > 1 /\ series[i] - series[i - 1] > 0
                   THEN series[i] - series[i - 1] ELSE 0
Loss(series, i) == IF i > 1 /\ series[i] - series[i - 1] < 0
                   THEN series[i - 1] - series[i] ELSE 0

RECURSIVE SumGain(_, _, _)
SumGain(series, lo, hi) ==
    IF lo > hi THEN 0 ELSE Gain(series, hi) + SumGain(series, lo, hi - 1)

RECURSIVE SumLoss(_, _, _)
SumLoss(series, lo, hi) ==
    IF lo > hi THEN 0 ELSE Loss(series, hi) + SumLoss(series, lo, hi - 1)

\* 100 - (100 / (1 + gain / loss)) for the two rolling means at one row (the
\* common factor 1/period cancels).  pandas divides without raising: g / 0 is
\* inf, which gives 100, and 0 / 0 is NaN.
RsiValue(g, l) == IF l = 0 THEN (IF g = 0 THEN NaN ELSE Num(100, 1))
                  ELSE Num(100 * g, g + l)

\* The series branch of calculate_rsi: NaN until the rolling window is full.
RsiSeries(series, period) ==
    [i \in 1..Len(series) |->
        IF i < period THEN NaN
        ELSE RsiValue(SumGain(series, i - period + 1, i),
                      SumLoss(series, i - period + 1, i))]

\* A calculate_rsi without its zero-loss branch (always the division).
calculate_rsi_NoBranch(series, period) ==
    [scalar |-> FALSE, values |-> RsiSeries(series, period)]

\* calculate_rsi: the scalar 100.0 when the latest rolling loss is 0, the
\* whole RSI series otherwise.
calculate_rsi(series, period) ==
    LET n == Len(series)
    IN  IF n >= period /\ SumLoss(series, n - period + 1, n) = 0
        THEN [scalar |-> TRUE, values |-> <<Num(100, 1)>>]
        ELSE [scalar |-> FALSE, values |-> RsiSeries(series, period)]

\* df[name] = value: a scalar is broadcast to every row.
AsColumn(value, n) == IF value.scalar THEN [i \in 1..n |-> value.values[1]]
                      ELSE value.values

RECURSIVE SumTo(_, _, _)
SumTo(series, lo, hi) ==
    IF lo > hi THEN 0 ELSE series[hi] + SumTo(series, lo, hi - 1)

\* series.rolling(window).mean(): NaN until the window is full.
RollingMean(series, window) ==
    [i \in 1..Len(series) |->
        IF i < window THEN NaN
        ELSE Num(SumTo(series, i - window + 1, i), window)]

\* Lines 47-50: the four columns analyze_stock writes into the frame it was
\* given.
AddIndicators(df, ema_fast_val, ema_slow_val) ==
    LET close == Col(df, "Close")
        n     == Len(df.rows)
    IN  [df EXCEPT !.extra =
           [c \in {"EMA_F", "EMA_S", "RSI", "Vol_MA"} |->
              CASE c = "EMA_F"  -> EwmMean(close, ema_fast_val, n)
                [] c = "EMA_S"  -> EwmMean(close, ema_slow_val, n)
                [] c = "RSI"    -> AsColumn(calculate_rsi(close, RsiPeriod), n)
                [] c = "Vol_MA" -> RollingMean(Col(df, "Volume"), VolMaWindow)]]

-----------------------------------------------------------------------------
(* analyze_stock *)

FMul(x, y) == Num(x.n * y.n, x.d * y.d)

\* Python's float division n / d for d # 0.
PyDiv(n, d) == IF d > 0 THEN Num(n, d) ELSE Num(-n, -d)

MaxOf(series) == CHOOSE x \in {series[i] : i \in DOMAIN series} :
                    \A i \in DOMAIN series : x >= series[i]
MinOf(series) == CHOOSE x \in {series[i] : i \in DOMAIN series} :
                    \A i \in DOMAIN series : x <= series[i]

\* Line 75 with >= in place of >.
TrendType_Ge(last) ==
    IF FGe(last.EMA_F, last.EMA_S) THEN "Bullish" ELSE "Bearish"

\* Line 75: trend_type.
TrendType(last) ==
    IF FGt(last.EMA_F, last.EMA_S) THEN "Bullish" ELSE "Bearish"

\* Line 108 without its test of the previous bar.
GoldenCross_NoPrev(prev, last) == FGt(last.EMA_F, last.EMA_S)

\* Line 108: the golden-cross condition.
GoldenCross(prev, last) ==
    FLe(prev.EMA_F, prev.EMA_S) /\ FGt(last.EMA_F, last.EMA_S)

\* Line 110: the death-cross condition.
DeathCross(prev, last) ==
    FGe(prev.EMA_F, prev.EMA_S) /\ FLt(last.EMA_F, last.EMA_S)

\* Line 112: curr_p >= res_1 * 0.998.
NearResistance(curr_p, res_1) ==
    FGe(Num(curr_p, 1), FMul(res_1, Num(998, 1000)))

\* Line 109 with the threshold 0 in place of 0.2.
GoldenLevel_Positive(vchg) == IF vchg > 0 THEN "warning" ELSE "error"

\* Line 109: the severity of a golden cross.
GoldenLevel(vchg) == IF vchg > VixThreshold THEN "warning" ELSE "error"

\* Line 106: the anomaly message names the flags that are set.
AnomalyMsg(is_price_anomaly, is_vol_anomaly) ==
    IF is_price_anomaly /\ is_vol_anomaly THEN "Anomaly: volatile surge"
    ELSE IF is_price_anomaly THEN "Anomaly: volatile"
    ELSE "Anomaly: surge"

\* Lines 101-113 with the crossover tests ahead of the anomaly test.
Alert_CrossFirst(is_price_anomaly, is_vol_anomaly, price_change_pct, prev, last, curr_p, res_1, vchg) ==
    IF GoldenCross(prev, last)
    THEN [msg |-> "Golden cross", alert_level |-> GoldenLevel(vchg)]
    ELSE IF DeathCross(prev, last)
    THEN [msg |-> "Death cross", alert_level |-> "error"]
    ELSE IF is_price_anomaly \/ is_vol_anomaly
    THEN [msg |-> AnomalyMsg(is_price_anomaly, is_vol_anomaly),
          alert_level |-> IF is_price_anomaly /\ price_change_pct.n < 0
                          THEN "error" ELSE "warning"]
    ELSE IF NearResistance(curr_p, res_1)
    THEN [msg |-> "Near resistance", alert_level |-> "warning"]
    ELSE [msg |-> "Trend stable", alert_level |-> "success"]

\* Lines 101-113: the alert message and level.
Alert(is_price_anomaly, is_vol_anomaly, price_change_pct, prev, last, curr_p, res_1, vchg) ==
    IF is_price_anomaly \/ is_vol_anomaly
    THEN [msg |-> AnomalyMsg(is_price_anomaly, is_vol_anomaly),
          alert_level |-> IF is_price_anomaly /\ price_change_pct.n < 0
                          THEN "error" ELSE "warning"]
    ELSE IF GoldenCross(prev, last)
    THEN [msg |-> "Golden cross", alert_level |-> GoldenLevel(vchg)]
    ELSE IF DeathCross(prev, last)
    THEN [msg |-> "Death cross", alert_level |-> "error"]
    ELSE IF NearResistance(curr_p, res_1)
    THEN [msg |-> "Near resistance", alert_level |-> "warning"]
    ELSE [msg |-> "Trend stable", alert_level |-> "success"]

\* Lines 96-98: vol_status.
VolStatus(vol_ratio) ==
    IF FGe(vol_ratio, Num(2, 1)) THEN "Surge"
    ELSE IF FGe(vol_ratio, Num(3, 2)) THEN "Elevated"
    ELSE "Normal"

\* Lines 78-93: the tags of anomaly_text (the digits of the formatted
\* numbers are not modelled).
AnomalyTags(price_chg_pct_1bar, vol_ratio) ==
    (IF FGe(FAbs(price_chg_pct_1bar), Num(3, 2)) THEN <<"price">> ELSE <<>>)
    \o (IF FGe(vol_ratio, Num(5, 2)) THEN <<"vol">> ELSE <<>>)

\* What a call leaves behind: what it returned or raised, and the frame
\* object it was passed as the caller sees it afterwards.
\* `cross` records how the tests of lines 108 and 110 evaluate on the window
\* (they are shadowed, not changed, when the anomaly branch is taken).
NoCross == [golden |-> FALSE, death |-> FALSE]

Returned(df, info, arg, cross) ==
    [outcome |-> IF info.kind = "None" THEN "none" ELSE "result",
     exc |-> "", df |-> df, info |-> info, arg |-> arg, cross |-> cross]

Raised(exc, arg) ==
    [outcome |-> "raise", exc |-> exc, df |-> None, info |-> None, arg |-> arg,
     cross |-> NoCross]

\* Lines 52-128, entered once the indicator columns are in the frame.
Analyze(df, vchg) ==
    LET n      == Len(df.rows)
        high_p == MaxOf(Col(df, "High"))
        low_p  == MinOf(Col(df, "Low"))
        close_p == df.rows[n].Close
        res_1  == Num(2 * (high_p + low_p + close_p) - 3 * low_p, 3)
        sup_1  == Num(2 * (high_p + low_p + close_p) - 3 * high_p, 3)
        last   == Row(df, n)
        prev   == Row(df, n - 1)
        curr_p == last.Close
        prev_p == prev.Close
        price_chg_pct_1bar ==
            IF prev_p # 0 THEN PyDiv((curr_p - prev_p) * 100, prev_p) ELSE Num(0, 1)
        day_open == last.Open
        price_chg_pct_day ==
            IF day_open # 0 THEN PyDiv((curr_p - day_open) * 100, day_open) ELSE Num(0, 1)
        vol_ma == last.Vol_MA
        vol_ratio ==
            IF FGt(vol_ma, Num(0, 1)) THEN Num(last.Volume * vol_ma.d, vol_ma.n)
            ELSE Num(1, 1)
    IN  IF prev_p = 0
        THEN Raised("ZeroDivisionError", df)      \* line 69
        ELSE
          LET price_change_pct == PyDiv((curr_p - prev_p) * 100, prev_p)
              is_price_anomaly == FGe(FAbs(price_change_pct), Num(1, 2))
              is_vol_anomaly   == FGe(vol_ratio, Num(5, 2))
              alert == Alert(is_price_anomaly, is_vol_anomaly, price_change_pct,
                             prev, last, curr_p, res_1, vchg)
              info ==
                [kind |-> "info",
                 price |-> curr_p,
                 price_chg_1bar |-> price_chg_pct_1bar,
                 price_chg_day |-> price_chg_pct_day,
                 day_pct |-> NumpyDiv((curr_p - day_open) * 100, day_open),
                 rsi |-> last.RSI,
                 vol_ratio |-> vol_ratio,
                 vol_status |-> VolStatus(vol_ratio),
                 trend |-> TrendType(last),
                 res |-> res_1, sup |-> sup_1,
                 msg |-> alert.msg, alert_level |-> alert.alert_level,
                 anomaly_text |-> AnomalyTags(price_chg_pct_1bar, vol_ratio)]
          IN  Returned(df, info, df,
                       [golden |-> GoldenCross(prev, last),
                        death  |-> DeathCross(prev, last)])

\* analyze_stock(df, v_chg, ema_fast_val, ema_slow_val), for periods >= 1
\* (the only ones passed here; pandas rejects a span below 1).
analyze_stock(df, vchg, ema_fast_val, ema_slow_val) ==
    IF df.kind = "None" \/ Len(df.rows) < MinBars
    THEN Returned(None, None, df, NoCross)        \* line 39
    ELSE Analyze(AddIndicators(df, ema_fast_val, ema_slow_val), vchg)

-----------------------------------------------------------------------------
(* Data acquisition *)

\* fetch_data: None when yf.download raises or returns an empty frame, the
\* downloaded frame otherwise.
fetch_data(download) ==
    IF download.kind = "exception" THEN None
    ELSE IF Len(download.rows) = 0 THEN None
    ELSE download

\* get_vix_info: <<curr_v, v_chg>> from the last two closes of the VIX frame,
\* <<20.0, 0.0>> when there are fewer than two.
get_vix_info(vix) ==
    IF vix.kind = "None" \/ Len(vix.rows) < 2 THEN <<VixDefault, 0>>
    ELSE LET n == Len(vix.rows)
         IN  <<vix.rows[n].Close, vix.rows[n].Close - vix.rows[n - 1].Close>>

-----------------------------------------------------------------------------
(* The environment: tracked symbols, slider positions, market data *)

\* st.sidebar.text_input(...): the tracked list (the first two defaults).
Symbols == <<"TSLA", "NIO">>

SymbolSet == {Symbols[i] : i \in DOMAIN Symbols}

N == Len(Symbols)

\* Slider positions <<ema_f_v, ema_s_v>>: the defaults, and a setting near
\* the other end of both ranges (5..20 and 21..50).
Configs == {<<9, 21>>, <<5, 49>>}

Flat(n, bar) == [i \in 1..n |-> bar]

\* The bars a feed entry stands for: n equal bars, then the published tail.
Window(f) == Flat(f.n, f.bar) \o f.tail

History(n, bar) == [n |-> n, bar |-> bar, tail |-> <<>>]

QuietBar == Bar(400, 400, 400, 400, 100)

\* A bar far below its high, with no volume traded.
IdleBar == Bar(400, 440, 400, 400, 0)

\* What the provider holds for each symbol when the program starts.
Markets ==
    { [s \in SymbolSet |-> IF s = "TSLA" THEN History(MinBars, QuietBar)
                                         ELSE History(MinBars - 1, QuietBar)],
      [s \in SymbolSet |-> IF s = "TSLA" THEN History(MinBars, IdleBar)
                                         ELSE History(MinBars, QuietBar)],
      [s \in SymbolSet |-> IF s = "TSLA" THEN History(MinBars - 1, QuietBar)
                                         ELSE History(MinBars, IdleBar)] }

\* The bars the provider may publish next.
TickBars ==
    { Bar(400, 401, 400, 401, 100),      \* up 0.25 %
      Bar(400, 404, 400, 404, 100),      \* up 1 %
      Bar(400, 400, 399, 399, 100),      \* down 0.25 %
      Bar(400, 400, 400, 400, 1000),     \* ten times the volume
      Bar(0, 0, 0, 0, 0) }               \* a zero print

\* What yf.download may answer for a ticker whose bars are w.
Downloads(w) ==
    { [kind |-> "exception"], DataFrame(<<>>), DataFrame(w) }

VixBar(c) == Bar(c, c, c, c, 0)

\* What fetch_data("^VIX", "2m") may return.
VixFrames ==
    { None,
      DataFrame(<<VixBar(200)>>),
      DataFrame(<<VixBar(200), VixBar(201)>>),
      DataFrame(<<VixBar(200), VixBar(203)>>) }

-----------------------------------------------------------------------------
(* The polling loop, lines 139-198 *)

\* A reference to the frame object of entry i; 0 stands for None.
Ref(obj, i) == IF obj.kind = "None" THEN 0 ELSE i

NoCall == [outcome |-> "", exc |-> "", entry |-> 0, df |-> 0, info |-> None,
           cross |-> NoCross]

\* The record of a call for entry i; the returned frame is kept by reference
\* (analyze_stock returns the object it was passed, or None).
CallRecord(r, i) ==
    [outcome |-> r.outcome, exc |-> r.exc, entry |-> i, df |-> Ref(r.df, i),
     info |-> r.info, cross |-> r.cross]

NoFrames == [i \in 1..N |-> None]

EmptyStore == [s \in {} |-> <<>>]

ScriptStart ==
    /\ idx = 1
    /\ v_chg = 0
    /\ frames = NoFrames
    /\ df_raw = 0
    /\ fetched = "None"
    /\ ret = NoCall
    /\ stock_data_store = EmptyStore
    /\ cols = <<>>
    /\ charts = <<>>
    /\ calls = [i \in 1..N |-> 0]

Init ==
    /\ feed \in Markets
    /\ ticks = 0
    /\ \E c \in Configs : ema_f_v = c[1] /\ ema_s_v = c[2]
    /\ pc = "vix"
    /\ ScriptStart

\* The provider publishes one more bar of a symbol (between two cycles).
Tick(sym, bar) ==
    /\ pc = "vix"
    /\ ticks < MaxTicks
    /\ feed' = [feed EXCEPT ![sym].tail = Append(@, bar)]
    /\ ticks' = ticks + 1
    /\ UNCHANGED <<ema_f_v, ema_s_v, pc, idx, v_chg, frames, df_raw, fetched,
                   ret, stock_data_store, cols, charts, calls>>

\* Lines 142-151: the VIX state, then an empty store for this cycle.
GetVix(vix) ==
    /\ pc = "vix"
    /\ v_chg' = get_vix_info(vix)[2]
    /\ stock_data_store' = EmptyStore
    /\ idx' = 1
    /\ pc' = "summary"
    /\ UNCHANGED <<feed, ticks, ema_f_v, ema_s_v, frames, df_raw, fetched, ret,
                   cols, charts, calls>>

\* Lines 159-169: the card shown for one entry.
Card(info) ==
    IF info.kind = "None" THEN "load failed"
    ELSE IF info.alert_level = "error" THEN "error"
    ELSE IF info.alert_level = "warning" THEN "warning"
    ELSE "success"

\* Lines 153-169: one iteration of the summary loop.  An exception raised by
\* analyze_stock is caught nowhere: it ends the script run.
Summary(download) ==
    LET sym  == Symbols[idx]
        data == fetch_data(download)
    IN  \E r \in {analyze_stock(data, v_chg, ema_f_v, ema_s_v)} :
        /\ pc = "summary"
        /\ fetched' = data.kind
        /\ df_raw' = Ref(data, idx)
        /\ frames' = [frames EXCEPT ![idx] = r.arg]
        /\ ret' = CallRecord(r, idx)
        /\ calls' = [calls EXCEPT ![idx] = @ + 1]
        /\ IF r.outcome = "raise"
           THEN /\ pc' = "crashed"
                /\ UNCHANGED <<idx, stock_data_store, cols>>
           ELSE /\ stock_data_store' =
                     [s \in DOMAIN stock_data_store \cup {sym} |->
                         IF s = sym THEN <<Ref(r.df, idx), r.info>>
                         ELSE stock_data_store[s]]
                /\ cols' = Append(cols, Card(r.info))
                /\ idx' = idx + 1
                /\ pc' = IF idx = N THEN "charts" ELSE "summary"
        /\ UNCHANGED <<feed, ticks, ema_f_v, ema_s_v, v_chg, charts>>

\* Lines 174-195: a chart for every entry whose stored frame is not None.
Charts ==
    /\ pc = "charts"
    /\ charts' = SelectSeq(Symbols, LAMBDA s : stock_data_store[s][1] # 0)
    /\ pc' = "sleep"
    /\ UNCHANGED <<feed, ticks, ema_f_v, ema_s_v, idx, v_chg, frames, df_raw,
                   fetched, ret, stock_data_store, cols, calls>>

\* Lines 197-198: sleep, then st.rerun() starts the script again.
Rerun ==
    /\ pc = "sleep"
    /\ pc' = "vix"
    /\ idx' = 1
    /\ v_chg' = 0
    /\ frames' = NoFrames
    /\ df_raw' = 0
    /\ fetched' = "None"
    /\ ret' = NoCall
    /\ stock_data_store' = EmptyStore
    /\ cols' = <<>>
    /\ charts' = <<>>
    /\ calls' = [i \in 1..N |-> 0]
    /\ UNCHANGED <<feed, ticks, ema_f_v, ema_s_v>>

Next ==
    \/ \E sym \in SymbolSet, bar \in TickBars : Tick(sym, bar)
    \/ \E vix \in VixFrames : GetVix(vix)
    \/ pc = "summary" /\ \E d \in Downloads(Window(feed[Symbols[idx]])) : Summary(d)
    \/ Charts
    \/ Rerun

Spec == Init /\ [][Next]_vars

-----------------------------------------------------------------------------
(* One tracked entry, cycle after cycle *)

\* The steps of one refresh cycle that concern the first entry of the list
\* (lines 142 and 154-156), with a download that succeeds, taken as one step.
Observe(w, vix) ==
    \E r \in {analyze_stock(fetch_data(DataFrame(w)),
                            get_vix_info(vix)[2], ema_f_v, ema_s_v)} :
        /\ v_chg' = get_vix_info(vix)[2]
        /\ fetched' = "DataFrame"
        /\ df_raw' = 1
        /\ frames' = [frames EXCEPT ![1] = r.arg]
        /\ ret' = CallRecord(r, 1)
        /\ pc' = IF r.outcome = "raise" THEN "crashed" ELSE "bars"
        /\ UNCHANGED <<ema_f_v, ema_s_v, idx, stock_data_store, cols, charts, calls>>

\* The first cycle of the run.
FirstCycle(vix) ==
    /\ pc = "bars"
    /\ ret = NoCall
    /\ UNCHANGED <<feed, ticks>>
    /\ Observe(Window(feed[Symbols[1]]), vix)

\* A later cycle, one new bar after the previous one.
NextBarCycle(bar, vix) ==
    /\ pc = "bars"
    /\ ret # NoCall
    /\ ticks < MaxTicks
    /\ feed' = [feed EXCEPT ![Symbols[1]].tail = Append(@, bar)]
    /\ ticks' = ticks + 1
    /\ Observe(Append(Window(feed[Symbols[1]]), bar), vix)

InitBars ==
    /\ feed \in Markets
    /\ ticks = 0
    /\ \E c \in Configs : ema_f_v = c[1] /\ ema_s_v = c[2]
    /\ pc = "bars"
    /\ ScriptStart

NextBars ==
    \/ \E vix \in VixFrames : FirstCycle(vix)
    \/ \E bar \in TickBars, vix \in VixFrames : NextBarCycle(bar, vix)

SpecBars == InitBars /\ [][NextBars]_vars

-----------------------------------------------------------------------------
(* analyze_stock called directly *)

\* Periods a caller may pass: analyze_stock takes any two integers.
ApiPeriods == {5, 9, 21, 49}

ApiFrames ==
    {None, DataFrame(Flat(MinBars - 1, QuietBar)), DataFrame(Flat(MinBars, QuietBar)),
     DataFrame(Flat(MinBars, IdleBar))}
    \cup {DataFrame(Append(Flat(MinBars, QuietBar), b)) : b \in TickBars}

InitApi ==
    /\ feed \in Markets
    /\ ticks = 0
    /\ ema_f_v \in ApiPeriods
    /\ ema_s_v \in ApiPeriods
    /\ pc = "api"
    /\ idx = 1
    /\ v_chg \in {0, 1, 3}
    /\ \E df \in ApiFrames :
          /\ frames = [NoFrames EXCEPT ![1] = df]
          /\ df_raw = Ref(df, 1)
          /\ fetched = df.kind
    /\ ret = NoCall
    /\ stock_data_store = EmptyStore
    /\ cols = <<>>
    /\ charts = <<>>
    /\ calls = [i \in 1..N |-> 0]

\* df, info = analyze_stock(df_raw, v_chg, ema_f_v, ema_s_v)
ApiCall ==
    /\ pc = "api"
    /\ \E r \in {analyze_stock(frames[1], v_chg, ema_f_v, ema_s_v)} :
          /\ frames' = [frames EXCEPT ![1] = r.arg]
          /\ ret' = CallRecord(r, 1)
    /\ pc' = "returned"
    /\ UNCHANGED <<feed, ticks, ema_f_v, ema_s_v, idx, v_chg, df_raw, fetched,
                   stock_data_store, cols, charts, calls>>

NextApi == ApiCall

SpecApi == InitApi /\ [][NextApi]_vars

-----------------------------------------------------------------------------
(* What the properties read from a state *)

Called == ret.outcome # ""

HasResult == ret.outcome = "result"

\* The frame object the last call was passed, as it is now.
CallFrame == frames[ret.entry]

\* The bars the provider held for the entry of the last call.
Provided == Window(feed[Symbols[ret.entry]])

LastN == Len(CallFrame.rows)

LastClose == CallFrame.rows[LastN].Close

PrevClose == CallFrame.rows[LastN - 1].Close

\* EMA_F > EMA_S, resp. EMA_F < EMA_S, at row i of the frame.
FastAboveAt(i) ==
    LET f == CallFrame.extra.EMA_F[i]
        s == CallFrame.extra.EMA_S[i]
    IN  f.n * s.d > s.n * f.d

FastBelowAt(i) ==
    LET f == CallFrame.extra.EMA_F[i]
        s == CallFrame.extra.EMA_S[i]
    IN  f.n * s.d < s.n * f.d

LastAbove == FastAboveAt(LastN)

LastBelow == FastBelowAt(LastN)

\* |close - previous close| / previous close * 100 >= 0.5
PriceAnomalous == PrevClose > 0 /\ 200 * Abs(LastClose - PrevClose) >= PrevClose

\* volume / (mean of the last ten volumes) >= 2.5
VolumeAnomalous ==
    LET total == SumTo(Col(CallFrame, "Volume"), LastN - 9, LastN)
    IN  total > 0 /\ 4 * CallFrame.rows[LastN].Volume >= total

CrossedUp == ~FastAboveAt(LastN - 1) /\ FastAboveAt(LastN)

CrossedDown == ~FastBelowAt(LastN - 1) /\ FastBelowAt(LastN)

\* close >= 0.998 * reported resistance
AtResistance == 1000 * LastClose * ret.info.res.d >= 998 * ret.info.res.n

ExpectedClass ==
    IF PriceAnomalous \/ VolumeAnomalous THEN "anomaly"
    ELSE IF CrossedUp THEN "golden"
    ELSE IF CrossedDown THEN "death"
    ELSE IF AtResistance THEN "near"
    ELSE "stable"

MsgClass ==
    CASE ret.info.msg \in {"Anomaly: volatile", "Anomaly: surge",
                           "Anomaly: volatile surge"} -> "anomaly"
      [] ret.info.msg = "Golden cross" -> "golden"
      [] ret.info.msg = "Death cross" -> "death"
      [] ret.info.msg = "Near resistance" -> "near"
      [] ret.info.msg = "Trend stable" -> "stable"
      [] OTHER -> "?"

ExpectedLevels ==
    CASE ExpectedClass = "anomaly" ->
            IF PriceAnomalous /\ LastClose < PrevClose THEN {"error"} ELSE {"warning"}
      [] ExpectedClass = "golden" -> {"warning", "error"}
      [] ExpectedClass = "death" -> {"error"}
      [] ExpectedClass = "near" -> {"warning"}
      [] OTHER -> {"success"}

\* max(ema_slow_period, rsi_period, volume_ma_period) + 2
RequiredBars == Max(Max(ema_s_v, RsiPeriod), VolMaWindow) + 2

NonDecreasing ==
    \A i \in 2..LastN : CallFrame.rows[i].Close >= CallFrame.rows[i - 1].Close

InfoFloats ==
    {ret.info.price_chg_1bar, ret.info.price_chg_day, ret.info.day_pct,
     ret.info.rsi, ret.info.vol_ratio, ret.info.res, ret.info.sup}

InvalidConfiguration == ema_f_v >= ema_s_v \/ ema_f_v < 1 \/ ema_s_v < 1

CycleOver == pc \in {"sleep", "crashed"}

-----------------------------------------------------------------------------
(* Properties *)

\* C1: every result carries the alert of the first matching rule in the order
\* anomaly, golden cross, death cross, near resistance, stable, with a level
\* that rule allows; an anomaly therefore hides any crossover or proximity.
C1_AlertPrecedence ==
    HasResult => /\ MsgClass = ExpectedClass
                 /\ ret.info.alert_level \in ExpectedLevels

\* C1 witness: a result whose last bar is anomalous and a golden cross at once.
C1_AnomalyOverGoldenCross ==
    /\ HasResult
    /\ PriceAnomalous \/ VolumeAnomalous
    /\ CrossedUp
    /\ MsgClass = "anomaly"

\* C2 as stated: a golden-cross alert is a warning when v_chg > 0 and an
\* error otherwise.
C2_GoldenSeverityPositive ==
    (HasResult /\ ret.info.msg = "Golden cross")
        => ret.info.alert_level = (IF v_chg > 0 THEN "warning" ELSE "error")

\* C2 amended: a golden-cross alert is a warning when v_chg > 0.2 and an
\* error otherwise.
C2_GoldenSeverityThreshold ==
    (HasResult /\ ret.info.msg = "Golden cross")
        => ret.info.alert_level = (IF v_chg > 2 THEN "warning" ELSE "error")

\* C2 witness: a golden-cross alert raised while the VIX rose by 0.1.
C2_GoldenWhileVixRisesSlightly ==
    /\ HasResult
    /\ ret.info.msg = "Golden cross"
    /\ v_chg = 1
    /\ ret.info.alert_level = "error"

\* C3: a window shorter than max(slow EMA, RSI, volume MA period) + 2 bars is
\* answered with no result, whatever the slider positions.
C3_ShortWindowRejected ==
    (Called /\ fetched = "DataFrame" /\ LastN < RequiredBars)
        => ret.outcome = "none"

\* C4: a call with ema_fast_val >= ema_slow_val or a period below 1 produces
\* no result and computes no indicator.
C4_InvalidConfigurationRejected ==
    (pc = "returned" /\ InvalidConfiguration)
        => /\ ret.outcome # "result"
           /\ frames[1].kind = "DataFrame" => DOMAIN frames[1].extra = {}

\* C5: on a window of sufficient length (non-negative prices and volumes) the
\* call returns a result, and no float of the result is NaN or infinite.
C5_TotalOnValidWindows ==
    (Called /\ fetched = "DataFrame" /\ LastN >= Max(MinBars, RequiredBars))
        => /\ HasResult
           /\ \A x \in InfoFloats : x.kind = "num"

\* C6: the trend of a result is Bullish exactly when the fast EMA of the last
\* bar is strictly above the slow one, and Bearish otherwise (also when equal).
C6_TrendIffFastAbove ==
    HasResult => ret.info.trend = (IF LastAbove THEN "Bullish" ELSE "Bearish")

\* C6 witness: a result whose two EMAs are equal at the last bar.
C6_EqualEmasBearish ==
    /\ HasResult
    /\ CallFrame.extra.EMA_F[LastN] = CallFrame.extra.EMA_S[LastN]
    /\ ret.info.trend = "Bearish"

\* C7: when no close of the window is below the close before it, the RSI of
\* the result is exactly 100 and comes from the zero-loss branch (the scalar
\* fills the whole column, also the rows a rolling mean leaves NaN).
C7_RsiHundredOnNonDecreasing ==
    (HasResult /\ NonDecreasing)
        => /\ ret.info.rsi = Num(100, 1)
           /\ CallFrame.extra.RSI[1] = Num(100, 1)

\* C7 witness: a result on a window that never falls and ends above its start.
C7_RisingWindow ==
    /\ HasResult
    /\ NonDecreasing
    /\ LastClose > CallFrame.rows[1].Close

\* C8: after a call the frame the caller passed is what the provider
\* delivered: the same columns with the same values.
C8_WindowUnchanged ==
    (Called /\ fetched = "DataFrame") => CallFrame = DataFrame(Provided)

\* C9: from one bar to the next, the golden-cross test holds at the new bar
\* exactly when the fast EMA was not above the slow one at the bar before and
\* is above it now (so never while it stays above); the death-cross test is
\* the mirror image, and the two never hold together.
C9_CrossOnlyAtCrossing ==
    [][ (HasResult /\ HasResult' /\ ticks' = ticks + 1)
          => /\ ret'.cross.golden <=> (~LastAbove /\ LastAbove')
             /\ ret'.cross.death <=> (~LastBelow /\ LastBelow')
             /\ ~(ret'.cross.golden /\ ret'.cross.death) ]_vars

\* C9 witness: the golden-cross test holds at a bar published after a cycle
\* that already produced a result.
C9_GoldenCrossFired ==
    /\ HasResult
    /\ ret.cross.golden
    /\ ticks >= 1
    /\ feed[Symbols[1]].n >= MinBars

\* C10: when a cycle is over, analyze_stock has been called exactly once for
\* every entry of the list; an entry without a result has neither frame nor
\* info, shows "load failed" and has no chart.
C10_EveryEntryAnalysedOnce ==
    CycleOver =>
        /\ \A i \in 1..N : calls[i] = 1
        /\ \A i \in 1..N :
              LET e == stock_data_store[Symbols[i]]
              IN  /\ (e[1] = 0) <=> (e[2].kind = "None")
                  /\ e[2].kind = "None" =>
                        /\ cols[i] = "load failed"
                        /\ \A j \in DOMAIN charts : charts[j] # Symbols[i]

====
